---- MODULE Spec2Model ----
(***************************************************************************)
(* DEEPFAKE-GUARDIAN: the Express server (src/server/server.js) and the    *)
(* scan overlay of the LegalOptions component (src/unnamed/part_000).      *)
(*                                                                         *)
(* Six specifications share this module:                                   *)
(*   Spec       the server: its four endpoints, the external processes     *)
(*              and the two backing files;                                 *)
(*   SpecClient the ScanOverlay component: mounting, the initial load,     *)
(*              the scan start, the polling interval and its responses;    *)
(*   SpecClientLive  SpecClient with the timer firing and every fetch      *)
(*              settling;                                                  *)
(*   SpecNorm   normalizeUrl applied to two spellings of one site;         *)
(*   SpecMerge  the per-key merge of one poll response's all_results;      *)
(*   SpecClose  the close handler of an analyze request applied to an exit *)
(*              code and an output;                                        *)
(*   SpecPoll   the callback of a poll applied to what an instance shows   *)
(*              and one response.                                          *)
(* Text is modelled as a sequence of one-character strings, so that the    *)
(* regular expressions of the source act on characters.                    *)
(***************************************************************************)
EXTENDS Integers, Sequences, FiniteSets, Bags, TLC

VARIABLES
    \* ---- server (Spec) ----
    serverUp,       \* the node process is running
    resultsFile,    \* ml_service/scan_results.json
    websitesFile,   \* websites.txt
    reqs,           \* the bag of the requests received so far
    scanners,       \* scanner processes started by /api/v1/global-scan
    uploads,        \* file names in the uploads directory
    now,            \* Date.now() when the last upload was named
    \* ---- client (SpecClient) ----
    showScanOverlay, \* LegalOptions state
    inst,            \* number of ScanOverlay instances mounted so far
    opening,         \* number of times the overlay was opened
    ov,              \* the state of the mounted ScanOverlay instance
    interval,        \* pollInterval is set
    net,             \* client requests in flight, in order of issue
    posts,           \* per opening, the scan start requests issued
    lastApplied,     \* the response body whose results the instance shows
    heldBefore,      \* the keys the map held before that response was applied
    appliedLate,     \* that response answers a request older than one applied before
    tickedFull,      \* the instance showed a complete scan at its last tick
    \* ---- normalizeUrl (SpecNorm) ----
    nHost, nVarA, nVarB, nKeyA, nKeyB, nPc,
    \* ---- merge (SpecMerge) ----
    mList, mMap, mPc,
    \* ---- the close handler of an analyze request (SpecClose) ----
    aCode, aOut, aAns, aPc,
    \* ---- the callback of one poll response (SpecPoll) ----
    pOv, pBody, pPc

serverVars == <<serverUp, resultsFile, websitesFile, reqs, scanners, uploads, now>>
clientVars == <<showScanOverlay, inst, opening, ov, interval, net, posts, lastApplied,
               heldBefore, appliedLate, tickedFull>>
normVars   == <<nHost, nVarA, nVarB, nKeyA, nKeyB, nPc>>
mergeVars  == <<mList, mMap, mPc>>
closeVars  == <<aCode, aOut, aAns, aPc>>
pollVars   == <<pOv, pBody, pPc>>
vars       == <<serverVars, clientVars, normVars, mergeVars, closeVars, pollVars>>
nonServerVars == <<clientVars, normVars, mergeVars, closeVars, pollVars>>
nonClientVars == <<serverVars, normVars, mergeVars, closeVars, pollVars>>
nonNormVars   == <<serverVars, clientVars, mergeVars, closeVars, pollVars>>
nonMergeVars  == <<serverVars, clientVars, normVars, closeVars, pollVars>>
nonCloseVars  == <<serverVars, clientVars, normVars, mergeVars, pollVars>>
nonPollVars   == <<serverVars, clientVars, normVars, mergeVars, closeVars>>

(***************************************************************************)
(* Bounds of the model.                                                    *)
(***************************************************************************)
MaxHostLen == 3
MaxResults == 3
MaxReq == 2
MaxMounts == 2
MaxInFlight == 2

(***************************************************************************)
(* Text.                                                                   *)
(***************************************************************************)
HTTP  == <<"h", "t", "t", "p", ":", "/", "/">>
HTTPS == <<"h", "t", "t", "p", "s", ":", "/", "/">>
WWW   == <<"w", "w", "w", ".">>
SLASH == <<"/">>

HasPrefix(s, p) == Len(s) >= Len(p) /\ SubSeq(s, 1, Len(p)) = p
DropPrefix(s, n) == SubSeq(s, n + 1, Len(s))

\* url.replace(/\/$/, '')
StripTrailingSlash(s) ==
    IF Len(s) > 0 /\ s[Len(s)] = "/" THEN SubSeq(s, 1, Len(s) - 1) ELSE s

\* url.replace(/^https?:\/\/(www\.)?/, '')
StripSchemeWww(s) ==
    LET n == IF HasPrefix(s, HTTPS) THEN Len(HTTPS)
             ELSE IF HasPrefix(s, HTTP) THEN Len(HTTP) ELSE 0
        rest == DropPrefix(s, n)
    IN  IF n = 0 THEN s
        ELSE IF HasPrefix(rest, WWW) THEN DropPrefix(rest, Len(WWW)) ELSE rest

\* a faulty variant: the trailing slash is kept
NormalizeKeepSlash(url) ==
    IF url = <<>> THEN <<>> ELSE StripSchemeWww(url)

\* normalizeUrl: '' for a falsy url (undefined, null, ''), else both replaces
normalizeUrl(url) ==
    IF url = <<>> THEN <<>> ELSE StripSchemeWww(StripTrailingSlash(url))

(***************************************************************************)
(* SpecNorm: two spellings of one bare host are normalized.                *)
(***************************************************************************)
Alphabet == {"a", "w", ".", "/"}

RECURSIVE Texts(_)
Texts(n) ==
    IF n = 0 THEN {<<>>}
    ELSE LET shorter == Texts(n - 1)
         IN  shorter \cup {Append(t, c) : t \in {u \in shorter : Len(u) = n - 1}, c \in Alphabet}

\* bare hosts: not empty, no trailing slash, no leading "www."
Hosts == {h \in Texts(MaxHostLen) :
            /\ h # <<>>
            /\ h[Len(h)] # "/"
            /\ ~HasPrefix(h, WWW)}

Schemes == {<<>>, HTTP, HTTPS}
Variants == [scheme : Schemes, www : BOOLEAN, slash : BOOLEAN]

Spelling(h, v) ==
    v.scheme \o (IF v.www THEN WWW ELSE <<>>) \o h \o (IF v.slash THEN SLASH ELSE <<>>)

InitNorm ==
    /\ nHost \in Hosts
    /\ nVarA \in Variants
    /\ nVarB \in Variants
    /\ nKeyA = <<>>
    /\ nKeyB = <<>>
    /\ nPc = "input"

IdleNorm ==
    /\ nHost = <<>>
    /\ nVarA = [scheme |-> <<>>, www |-> FALSE, slash |-> FALSE]
    /\ nVarB = [scheme |-> <<>>, www |-> FALSE, slash |-> FALSE]
    /\ nKeyA = <<>>
    /\ nKeyB = <<>>
    /\ nPc = "idle"

NormalizeBoth ==
    /\ nPc = "input"
    /\ nKeyA' = normalizeUrl(Spelling(nHost, nVarA))
    /\ nKeyB' = normalizeUrl(Spelling(nHost, nVarB))
    /\ nPc' = "done"
    /\ UNCHANGED <<nHost, nVarA, nVarB>>
    /\ UNCHANGED nonNormVars

(***************************************************************************)
(* The merge of one response's all_results (poll callback, forEach).       *)
(***************************************************************************)
A_COM == <<"a">>
B_COM == <<"b">>

Predictions == {"Real", "Fake"}

\* resultsMap is a function from the keys it holds to their records
EmptyMap == [k \in {} |-> 0]
HasKey(m, k) == k \in DOMAIN m
Put(m, k, r) == [x \in DOMAIN m \cup {k} |-> IF x = k THEN r ELSE m[x]]

\* a faulty variant: every record replaces the one stored for its key
MergeStepLastWins(m, r) ==
    Put(m, normalizeUrl(r.source_url), r)

\* if (!resultsMap[key] || r.prediction === 'Fake') resultsMap[key] = r
MergeStep(m, r) ==
    LET key == normalizeUrl(r.source_url)
    IN  IF ~HasKey(m, key) \/ r.prediction = "Fake" THEN Put(m, key, r) ELSE m

RECURSIVE MergeFrom(_, _, _)
MergeFrom(m, list, i) ==
    IF i > Len(list) THEN m ELSE MergeFrom(MergeStep(m, list[i]), list, i + 1)

\* const resultsMap = {}; data.all_results.forEach(...)
MergeResults(list) == MergeFrom(EmptyMap, list, 1)

MergeUrls == {A_COM, HTTP \o WWW \o A_COM \o SLASH, HTTPS \o A_COM, B_COM}
MergeRecords == [source_url : MergeUrls, prediction : Predictions, confidence : {60, 90}]

RECURSIVE Lists(_, _)
Lists(S, n) ==
    IF n = 0 THEN {<<>>}
    ELSE LET shorter == Lists(S, n - 1)
         IN  shorter \cup {Append(l, x) : l \in {u \in shorter : Len(u) = n - 1}, x \in S}

InitMerge ==
    /\ mList \in Lists(MergeRecords, MaxResults)
    /\ mMap = EmptyMap
    /\ mPc = "input"

IdleMerge ==
    /\ mList = <<>>
    /\ mMap = EmptyMap
    /\ mPc = "idle"

MergeAll ==
    /\ mPc = "input"
    /\ mMap' = MergeResults(mList)
    /\ mPc' = "done"
    /\ UNCHANGED mList
    /\ UNCHANGED nonMergeVars

(***************************************************************************)
(* Files and JSON.  A file is absent, unreadable (it exists and reading it *)
(* fails) or holds a text.  The text of scan_results.json is a sequence of *)
(* JSON tokens; a member token carries its name and its value.             *)
(***************************************************************************)
Absent     == [kind |-> "absent", text |-> <<>>]
Unreadable == [kind |-> "unreadable", text |-> <<>>]
TextFile(t) == [kind |-> "text", text |-> t]

\* JSON values carry their type
JBool(b) == [bool |-> b]
JStr(t)  == [str |-> t]
JNum(n)  == [num |-> n]
JArr(a)  == [arr |-> a]
JObj(o)  == [obj |-> o]
NoVal == [none |-> TRUE]
\* the truthiness of a value in a condition
Truthy(v) ==
    IF "bool" \in DOMAIN v THEN v.bool
    ELSE IF "str" \in DOMAIN v THEN v.str # ""
    ELSE IF "num" \in DOMAIN v THEN v.num # 0
    ELSE "none" \notin DOMAIN v
LBRACE == [t |-> "{", k |-> "", v |-> NoVal]
RBRACE == [t |-> "}", k |-> "", v |-> NoVal]
COMMA  == [t |-> ",", k |-> "", v |-> NoVal]
NULLTOK == [t |-> "null", k |-> "", v |-> NoVal]
Member(k, v) == [t |-> "member", k |-> k, v |-> v]

\* the tokens between the braces are member (, member)*
MembersOk(inner) ==
    /\ Len(inner) % 2 = 1
    /\ \A i \in 1..Len(inner) :
          IF i % 2 = 1 THEN inner[i].t = "member" ELSE inner[i].t = ","

\* the object a member list denotes: a later member of a name wins
ObjectOf(inner) ==
    LET idx == {i \in 1..Len(inner) : inner[i].t = "member"}
        names == {inner[i].k : i \in idx}
        last(n) == CHOOSE i \in idx : inner[i].k = n /\ \A j \in idx : inner[j].k = n => j <= i
    IN  [n \in names |-> inner[last(n)].v]

\* JSON.parse: the value, or a SyntaxError (ok = FALSE)
JSONparse(text) ==
    IF text = <<NULLTOK>> THEN [ok |-> TRUE, isObject |-> FALSE, val |-> <<>>]
    ELSE IF text = <<LBRACE, RBRACE>> THEN [ok |-> TRUE, isObject |-> TRUE, val |-> <<>>]
    ELSE IF Len(text) >= 3 /\ text[1].t = "{" /\ text[Len(text)].t = "}"
              /\ MembersOk(SubSeq(text, 2, Len(text) - 1))
    THEN [ok |-> TRUE, isObject |-> TRUE, val |-> ObjectOf(SubSeq(text, 2, Len(text) - 1))]
    ELSE [ok |-> FALSE, isObject |-> FALSE, val |-> <<>>]

\* { success: true, ...jsonData }: the document's own fields come last and win
SpreadOverSuccess(obj) ==
    [n \in DOMAIN obj \cup {"success"} |-> IF n \in DOMAIN obj THEN obj[n] ELSE JBool(TRUE)]

(***************************************************************************)
(* The documents the external scanner writes.                              *)
(***************************************************************************)
Rec(u, p, c) == [source_url |-> u, prediction |-> p, confidence |-> c]
Summary(t, f) == JObj([total_scanned |-> JNum(t), deepfakes_found |-> JNum(f)])

DocFirst ==
    <<LBRACE, Member("all_results", JArr(<<Rec(HTTPS \o A_COM, "Real", 90)>>)), COMMA,
      Member("summary", Summary(1, 0)), RBRACE>>
DocSecond ==
    <<LBRACE, Member("all_results", JArr(<<Rec(B_COM, "Real", 60), Rec(B_COM \o SLASH, "Fake", 90)>>)), COMMA,
      Member("summary", Summary(3, 1)), RBRACE>>
\* a record whose prediction is neither "Real" nor "Fake": the scanner's
\* output is not validated anywhere
DocOther ==
    <<LBRACE, Member("all_results", JArr(<<Rec(A_COM, "Unknown", 60)>>)), COMMA,
      Member("summary", Summary(1, 0)), RBRACE>>
DocNoList == <<LBRACE, Member("success", JBool(FALSE)), RBRACE>>
DocNull == <<NULLTOK>>

ResultDocs == {DocFirst, DocNoList, DocNull}

\* what a reader can find: nothing, an unreadable file, or a document written
\* up to some token (the writer is not coordinated with the reader)
WrittenUpTo(docs) == UNION {{TextFile(SubSeq(d, 1, n)) : n \in 0..Len(d)} : d \in docs}
ResultsFileStates == {Absent, Unreadable} \cup WrittenUpTo(ResultDocs)

(***************************************************************************)
(* websites.txt: lines of characters.                                      *)
(***************************************************************************)
IsSpace(c) == c = " "

RECURSIVE TrimLeft(_)
TrimLeft(s) == IF Len(s) > 0 /\ IsSpace(s[1]) THEN TrimLeft(Tail(s)) ELSE s
RECURSIVE TrimRight(_)
TrimRight(s) ==
    IF Len(s) > 0 /\ IsSpace(s[Len(s)]) THEN TrimRight(SubSeq(s, 1, Len(s) - 1)) ELSE s
Trim(s) == TrimRight(TrimLeft(s))

RECURSIVE NonEmpty(_)
NonEmpty(ls) ==
    IF ls = <<>> THEN <<>>
    ELSE IF Len(ls[1]) > 0 THEN <<ls[1]>> \o NonEmpty(Tail(ls)) ELSE NonEmpty(Tail(ls))

\* a faulty variant: the lines are trimmed and all of them are kept
WebsiteLinesKeepEmpty(ls) == [i \in 1..Len(ls) |-> Trim(ls[i])]

\* data.split('\n').map(line => line.trim()).filter(line => line.length > 0)
WebsiteLines(ls) == NonEmpty([i \in 1..Len(ls) |-> Trim(ls[i])])

ListAB    == <<A_COM, <<>>, <<" ">> \o B_COM \o <<" ">>>>
ListBA    == <<<<" ", " ">>, B_COM \o <<" ">>, A_COM>>
ListEmpty == <<<<>>>>
WebsitesFileStates == {Absent, TextFile(ListAB), TextFile(ListBA)}

(***************************************************************************)
(* Response bodies.                                                        *)
(***************************************************************************)
NoBody == [nobody |-> TRUE]
ErrorBody(msg) == [success |-> JBool(FALSE), error |-> JStr(msg)]
DefaultShape ==
    [success |-> JBool(TRUE), results |-> JArr(<<>>), summary |-> JObj([total_scanned |-> JNum(0)])]
ScanAccepted ==
    [success |-> JBool(TRUE), message |-> JStr("Global deepfake scan initiated in background.")]
\* express's own answer to an exception thrown by a handler: not a JSON body
ExpressErrorPage == [html |-> JStr("Internal Server Error")]

(***************************************************************************)
(* The output of predict.py: lines of tokens.  A token is one of the three *)
(* fixed texts below, a word, a numeral or a blank.                        *)
(***************************************************************************)
RESULT == "[Result] Class: "
CONF   == "[Confidence] "
PCT    == "%"

NoMatch == [found |-> FALSE, text |-> <<>>]

\* the leftmost match of re in one line, re being marker(.+)
ClassInLine(line) ==
    LET ps == {p \in 1..Len(line) : line[p] = RESULT /\ p < Len(line)}
    IN  IF ps = {} THEN NoMatch
        ELSE LET p == CHOOSE x \in ps : \A y \in ps : x <= y
             IN  [found |-> TRUE, text |-> SubSeq(line, p + 1, Len(line))]

\* the leftmost match of marker(.+)% in one line; .+ is greedy
ConfInLine(line) ==
    LET ends(p) == {q \in (p + 2)..Len(line) : line[q] = PCT}
        ps == {p \in 1..Len(line) : line[p] = CONF /\ ends(p) # {}}
    IN  IF ps = {} THEN NoMatch
        ELSE LET p == CHOOSE x \in ps : \A y \in ps : x <= y
                 q == CHOOSE x \in ends(p) : \A y \in ends(p) : y <= x
             IN  [found |-> TRUE, text |-> SubSeq(line, p + 1, q - 1)]

\* the first of the matches found, line by line
FirstFound(ms) ==
    LET hits == {i \in 1..Len(ms) : ms[i].found}
    IN  IF hits = {} THEN NoMatch
        ELSE ms[CHOOSE i \in hits : \A j \in hits : i <= j]

\* dataString.match(/\[Result\] Class: (.+)/)
ClassMatch(out) == FirstFound([i \in 1..Len(out) |-> ClassInLine(out[i])])
\* dataString.match(/\[Confidence\] (.+)%/)
ConfMatch(out) == FirstFound([i \in 1..Len(out) |-> ConfInLine(out[i])])

Numerals == {"95", "150", "-5"}
NumeralValue(t) ==
    IF t = "95" THEN 95 ELSE IF t = "150" THEN 150 ELSE IF t = "-5" THEN 0 - 5 ELSE 0
NaN == [isNaN |-> TRUE, value |-> 0]

\* parseFloat: the number the text starts with after leading blanks, or NaN
parseFloat(text) ==
    LET t == TrimLeft(text)
    IN  IF Len(t) > 0 /\ t[1] \in Numerals
        THEN [isNaN |-> FALSE, value |-> NumeralValue(t[1])]
        ELSE NaN

\* a faulty variant: the text is compared with "Fake" as a whole
IncludesFakeExact(text) == text = <<"Fake">>

\* classMatch[1].includes('Fake')
IncludesFake(text) == \E i \in 1..Len(text) : text[i] = "Fake"

OutFake   == << <<RESULT, "Fake">>, <<CONF, "95", PCT>> >>
OutNoConf == << <<RESULT, "Real", " ">> >>
OutEmpty  == <<>>
Outputs == {OutFake, OutNoConf, OutEmpty}
ExitCodes == {0, 1}

(***************************************************************************)
(* Starting a child process.  spawn returns a child ("ok"), returns a      *)
(* child that emits 'error' on the next tick because the program could not *)
(* be started (ENOENT, EACCES, EAGAIN, ...: "error"), or throws ("throws").*)
(***************************************************************************)
SpawnOutcomes == {"ok", "error", "throws"}

(***************************************************************************)
(* The server.                                                             *)
(***************************************************************************)
NotRead == [kind |-> "notread", text |-> <<>>]
FileNames == {"x.png"}
MaxNow == 1

\* part: the form field of the file part of an upload ("" without one);
\* hasFile: req.file is set
NewReq(ep) ==
    [ep |-> ep, pc |-> "answered", part |-> "", hasFile |-> FALSE, spawn |-> "none",
     existed |-> FALSE, seen |-> NotRead, code |-> 0, out |-> <<>>,
     status |-> 0, body |-> NoBody]

Answer(r, status, body) == [r EXCEPT !.pc = "answered", !.status = status, !.body = body]

Received(r) == reqs (+) SetToBag({r})
Replaced(r, q) == (reqs (-) SetToBag({r})) (+) SetToBag({q})
Requests == BagToSet(reqs)

InitServer ==
    /\ serverUp = TRUE
    /\ resultsFile = Absent
    /\ websitesFile \in WebsitesFileStates
    /\ reqs = EmptyBag
    /\ scanners = 0
    /\ uploads = {}
    /\ now = 0

IdleServer ==
    /\ serverUp = TRUE
    /\ resultsFile = Absent
    /\ websitesFile = Absent
    /\ reqs = EmptyBag
    /\ scanners = 0
    /\ uploads = {}
    /\ now = 0

\* no listener for the child's 'error' event: emitting it throws, and the
\* uncaught exception ends the process
ChildErrorSurvived == FALSE

\* POST /api/v1/analyze without a file in the field 'image'
AnalyzeNoFile ==
    /\ serverUp
    /\ BagCardinality(reqs) < MaxReq
    /\ reqs' = Received(Answer(NewReq("analyze"), 400, ErrorBody("No image file uploaded")))
    /\ UNCHANGED <<serverUp, resultsFile, websitesFile, scanners, uploads, now>>
    /\ UNCHANGED nonServerVars

\* POST /api/v1/analyze with a file part in another field than 'image':
\* upload.single('image') stores nothing and passes a MulterError
\* (LIMIT_UNEXPECTED_FILE) to next(); no error middleware is registered, so
\* express answers with its own error page and the handler does not run
AnalyzeOtherField ==
    /\ serverUp
    /\ BagCardinality(reqs) < MaxReq
    /\ reqs' = Received(Answer([NewReq("analyze") EXCEPT !.part = "file"], 500, ExpressErrorPage))
    /\ UNCHANGED <<serverUp, resultsFile, websitesFile, scanners, uploads, now>>
    /\ UNCHANGED nonServerVars

\* a faulty variant: a response is sent as soon as the child is spawned
SpawnedAnswersAtOnce(r) ==
    [r EXCEPT !.pc = "running", !.status = 200, !.body = [success |-> JBool(TRUE)]]

\* the handler returns after registering the listeners: nothing is sent
\* before the child's 'close'
Spawned(r) == [r EXCEPT !.pc = "running"]

\* POST /api/v1/analyze with a file: multer stores it, the handler spawns
AnalyzeFile ==
    /\ serverUp
    /\ BagCardinality(reqs) < MaxReq
    /\ \E name \in FileNames, o \in SpawnOutcomes, t \in now..MaxNow :
          LET r == [NewReq("analyze") EXCEPT !.part = "image", !.hasFile = TRUE, !.spawn = o]
          IN  /\ now' = t
              /\ uploads' = uploads \cup {<<t, name>>}
              /\ CASE o = "ok" ->
                        /\ reqs' = Received(Spawned(r))
                        /\ serverUp' = serverUp
                   [] o = "error" ->
                        /\ reqs' = Received(Spawned(r))
                        /\ serverUp' = ChildErrorSurvived
                   [] o = "throws" ->
                        /\ reqs' = Received(Answer(r, 500, ExpressErrorPage))
                        /\ serverUp' = serverUp
    /\ UNCHANGED <<resultsFile, websitesFile, scanners>>
    /\ UNCHANGED nonServerVars

\* a faulty variant: the output is parsed whatever the exit code is
CloseAnswerParseFirst(r, code, out) ==
    LET classMatch == ClassMatch(out)
        confMatch == ConfMatch(out)
        q == [r EXCEPT !.code = code, !.out = out]
    IN  IF classMatch.found /\ confMatch.found
        THEN Answer(q, 200, [success |-> JBool(TRUE),
                             result |-> JObj([label |-> Trim(classMatch.text),
                                              confidence |-> parseFloat(confMatch.text),
                                              isFake |-> IncludesFake(classMatch.text)])])
        ELSE IF code # 0 THEN Answer(q, 500, ErrorBody("Analysis execution failed"))
        ELSE Answer(q, 500, ErrorBody("Failed to parse analysis results"))

\* the answer of pythonProcess.on('close')
CloseAnswer(r, code, out) ==
    LET classMatch == ClassMatch(out)
        confMatch == ConfMatch(out)
        q == [r EXCEPT !.code = code, !.out = out]
    IN  IF code # 0 THEN Answer(q, 500, ErrorBody("Analysis execution failed"))
        ELSE IF classMatch.found /\ confMatch.found
        THEN Answer(q, 200, [success |-> JBool(TRUE),
                             result |-> JObj([label |-> Trim(classMatch.text),
                                              confidence |-> parseFloat(confMatch.text),
                                              isFake |-> IncludesFake(classMatch.text)])])
        ELSE Answer(q, 500, ErrorBody("Failed to parse analysis results"))

\* the child of an analyze request closes
ChildClose ==
    /\ serverUp
    /\ \E r \in Requests, code \in ExitCodes, out \in Outputs :
          /\ r.ep = "analyze"
          /\ r.pc = "running"
          /\ r.spawn = "ok"
          /\ reqs' = Replaced(r, CloseAnswer(r, code, out))
    /\ UNCHANGED <<serverUp, resultsFile, websitesFile, scanners, uploads, now>>
    /\ UNCHANGED nonServerVars

(***************************************************************************)
(* SpecClose: the close handler applied to an exit code and an output.     *)
(* A line of the output is a marker, a payload and possibly a "%".         *)
(***************************************************************************)
MaxLines == 2

Payloads ==
    {<<>>, <<"Fake">>, <<"Real">>, <<" ", "Fake", " ">>, <<"95">>, <<"150">>, <<"-5">>,
     <<"n/a">>}
CloseLines ==
    {<<m>> \o p \o t : m \in {RESULT, CONF}, p \in Payloads, t \in {<<>>, <<PCT>>}}
    \cup {<<"n/a">>}

Running ==
    [NewReq("analyze") EXCEPT !.pc = "running", !.part = "image", !.hasFile = TRUE,
                              !.spawn = "ok"]

InitClose ==
    /\ aCode \in ExitCodes
    /\ aOut \in Lists(CloseLines, MaxLines)
    /\ aAns = Running
    /\ aPc = "input"

IdleClose ==
    /\ aCode = 0
    /\ aOut = <<>>
    /\ aAns = Running
    /\ aPc = "idle"

\* pythonProcess.on('close', (code) => ...) with dataString = aOut
OnClose ==
    /\ aPc = "input"
    /\ aAns' = CloseAnswer(aAns, aCode, aOut)
    /\ aPc' = "done"
    /\ UNCHANGED <<aCode, aOut>>
    /\ UNCHANGED nonCloseVars

\* a faulty variant: no scanner is started while one was started before
SpawnDetachedSingleFlight(n) == IF n > 0 THEN n ELSE n + 1

\* spawn('python', [scriptPath], {detached: true, stdio: 'ignore'}); unref():
\* one more scanner process, whatever was started before
SpawnDetached(n) == n + 1

\* POST /api/v1/global-scan
GlobalScan ==
    /\ serverUp
    /\ BagCardinality(reqs) < MaxReq
    /\ \E o \in SpawnOutcomes :
          LET r == [NewReq("global-scan") EXCEPT !.spawn = o]
          IN  CASE o = "ok" ->
                     /\ reqs' = Received(Answer(r, 200, ScanAccepted))
                     /\ scanners' = SpawnDetached(scanners)
                     /\ serverUp' = serverUp
                [] o = "error" ->
                     /\ reqs' = Received(Answer(r, 200, ScanAccepted))
                     /\ scanners' = scanners
                     /\ serverUp' = ChildErrorSurvived
                [] o = "throws" ->
                     /\ reqs' = Received(Answer(r, 500, ExpressErrorPage))
                     /\ scanners' = scanners
                     /\ serverUp' = serverUp
    /\ UNCHANGED <<resultsFile, websitesFile, uploads, now>>
    /\ UNCHANGED nonServerVars

\* GET /api/v1/websites: fs.readFile is started
GetWebsites ==
    /\ serverUp
    /\ BagCardinality(reqs) < MaxReq
    /\ reqs' = Received([NewReq("websites") EXCEPT !.pc = "reading"])
    /\ UNCHANGED <<serverUp, resultsFile, websitesFile, scanners, uploads, now>>
    /\ UNCHANGED nonServerVars

\* the answer of the readFile callback of /api/v1/websites
WebsitesAnswer(r, f) ==
    LET q == [r EXCEPT !.seen = f]
    IN  IF f.kind # "text" THEN Answer(q, 500, ErrorBody("Failed to load website list"))
        ELSE Answer(q, 200, [success |-> JBool(TRUE), websites |-> JArr(WebsiteLines(f.text))])

WebsitesRead ==
    /\ serverUp
    /\ \E r \in Requests :
          /\ r.ep = "websites"
          /\ r.pc = "reading"
          /\ reqs' = Replaced(r, WebsitesAnswer(r, websitesFile))
    /\ UNCHANGED <<serverUp, resultsFile, websitesFile, scanners, uploads, now>>
    /\ UNCHANGED nonServerVars

\* a faulty variant: a read error is answered like an absent file
ResultsAnswerDowngrade(r, f) ==
    LET q == [r EXCEPT !.seen = f]
        parsed == JSONparse(f.text)
    IN  IF f.kind # "text" THEN Answer(q, 200, DefaultShape)
        ELSE IF parsed.ok THEN Answer(q, 200, SpreadOverSuccess(parsed.val))
        ELSE Answer(q, 200, DefaultShape)

\* a faulty variant: a parse error is answered with 500
ResultsAnswerParseFails(r, f) ==
    LET q == [r EXCEPT !.seen = f]
        parsed == JSONparse(f.text)
    IN  IF f.kind # "text" THEN Answer(q, 500, ErrorBody("Failed to load results"))
        ELSE IF parsed.ok THEN Answer(q, 200, SpreadOverSuccess(parsed.val))
        ELSE Answer(q, 500, ErrorBody("Failed to load results"))

\* the answer of the readFile callback of /api/v1/scan-results
ResultsAnswer(r, f) ==
    LET q == [r EXCEPT !.seen = f]
        parsed == JSONparse(f.text)
    IN  IF f.kind # "text" THEN Answer(q, 500, ErrorBody("Failed to load results"))
        ELSE IF parsed.ok THEN Answer(q, 200, SpreadOverSuccess(parsed.val))
        ELSE Answer(q, 200, DefaultShape)

\* GET /api/v1/scan-results: fs.existsSync, then fs.readFile is started
GetScanResults ==
    /\ serverUp
    /\ BagCardinality(reqs) < MaxReq
    /\ IF resultsFile.kind = "absent"
       THEN reqs' = Received(Answer([NewReq("scan-results") EXCEPT !.seen = Absent],
                                        200, DefaultShape))
       ELSE reqs' = Received([NewReq("scan-results") EXCEPT !.pc = "reading", !.existed = TRUE])
    /\ UNCHANGED <<serverUp, resultsFile, websitesFile, scanners, uploads, now>>
    /\ UNCHANGED nonServerVars

ResultsRead ==
    /\ serverUp
    /\ \E r \in Requests :
          /\ r.ep = "scan-results"
          /\ r.pc = "reading"
          /\ reqs' = Replaced(r, ResultsAnswer(r, resultsFile))
    /\ UNCHANGED <<serverUp, resultsFile, websitesFile, scanners, uploads, now>>
    /\ UNCHANGED nonServerVars

\* the external scanner (or anyone) writes, truncates, removes or locks the
\* results file
WriteResults ==
    /\ serverUp
    /\ \E f \in ResultsFileStates : f # resultsFile /\ resultsFile' = f
    /\ UNCHANGED <<serverUp, websitesFile, reqs, scanners, uploads, now>>
    /\ UNCHANGED nonServerVars

EditWebsites ==
    /\ serverUp
    /\ \E f \in WebsitesFileStates : f # websitesFile /\ websitesFile' = f
    /\ UNCHANGED <<serverUp, resultsFile, reqs, scanners, uploads, now>>
    /\ UNCHANGED nonServerVars

(***************************************************************************)
(* The client: LegalOptions and its ScanOverlay.  ScanOverlay is declared  *)
(* inside the body of LegalOptions, so every render of LegalOptions makes  *)
(* a new component type and React unmounts the mounted instance and mounts *)
(* a fresh one.                                                            *)
(***************************************************************************)
NoError == "null"
InitialOv ==
    [websites |-> <<>>, loading |-> TRUE, error |-> NoError, scanInitiated |-> FALSE,
     scanResults |-> EmptyMap, stats |-> [total |-> 0, found |-> 0]]

NoResponse == [noresponse |-> TRUE]
NetworkFailure == [failed |-> JBool(TRUE)]

Ready(o) == ~o.loading /\ o.error = NoError

\* a faulty variant: the interval is set whatever loading and error are
PollEffectUnguarded(o) == TRUE

\* total_scanned has reached the number of websites
Complete(o) == Len(o.websites) > 0 /\ o.stats.total >= Len(o.websites)

\* a faulty variant: polling ends once every website is reported scanned
PollEffectUntilComplete(o) == ~(o.loading \/ o.error # NoError) /\ ~Complete(o)

\* the polling effect: if (loading || error) return; else setInterval
PollEffect(o) == ~(o.loading \/ o.error # NoError)

Remove(seq, i) == SubSeq(seq, 1, i - 1) \o SubSeq(seq, i + 1, Len(seq))
\* a request in flight; late: a response to a request issued after this one
\* has been applied already
Fetch(kind, n, o) == [kind |-> kind, inst |-> n, opening |-> o, late |-> FALSE]
MarkLate(seq, i, n) ==
    [j \in 1..Len(seq) |->
        IF j < i /\ seq[j].kind = "poll" /\ seq[j].inst = n
        THEN [seq[j] EXCEPT !.late = TRUE] ELSE seq[j]]
Current(r) == showScanOverlay /\ r.inst = inst

InitClient ==
    /\ showScanOverlay = FALSE
    /\ inst = 0
    /\ opening = 0
    /\ ov = InitialOv
    /\ interval = FALSE
    /\ net = <<>>
    /\ posts = [o \in 1..MaxMounts |-> 0]
    /\ lastApplied = NoResponse
    /\ heldBefore = {}
    /\ appliedLate = FALSE
    /\ tickedFull = FALSE

IdleClient ==
    /\ showScanOverlay = FALSE
    /\ inst = 0
    /\ opening = 0
    /\ ov = InitialOv
    /\ interval = FALSE
    /\ net = <<>>
    /\ posts = <<>>
    /\ lastApplied = NoResponse
    /\ heldBefore = {}
    /\ appliedLate = FALSE
    /\ tickedFull = FALSE

\* a new instance: useState initial values, both effects run
Mount(o) ==
    /\ inst' = inst + 1
    /\ ov' = InitialOv
    /\ interval' = PollEffect(InitialOv)
    /\ net' = Append(net, Fetch("websites", inst + 1, o))
    /\ tickedFull' = FALSE
    /\ lastApplied' = NoResponse
    /\ heldBefore' = {}
    /\ appliedLate' = FALSE

\* handlePlatformReport: setShowScanOverlay(true)
HandlePlatformReport ==
    /\ ~showScanOverlay
    /\ inst < MaxMounts
    /\ Len(net) < MaxInFlight
    /\ showScanOverlay' = TRUE
    /\ opening' = opening + 1
    /\ Mount(opening + 1)
    /\ UNCHANGED posts
    /\ UNCHANGED nonClientVars

\* the close button: setShowScanOverlay(false); the instance unmounts and
\* the cleanup of the polling effect clears the interval
CloseOverlay ==
    /\ showScanOverlay
    /\ showScanOverlay' = FALSE
    /\ ov' = InitialOv
    /\ interval' = FALSE
    /\ lastApplied' = NoResponse
    /\ heldBefore' = {}
    /\ appliedLate' = FALSE
    /\ tickedFull' = FALSE
    /\ UNCHANGED <<inst, opening, net, posts>>
    /\ UNCHANGED nonClientVars

\* LegalOptions renders again while the overlay is shown (setDownloaded,
\* new props): the instance is replaced by a fresh one
LegalOptionsRerender ==
    /\ showScanOverlay
    /\ inst < MaxMounts
    /\ Len(net) < MaxInFlight
    /\ Mount(opening)
    /\ UNCHANGED <<showScanOverlay, opening, posts>>
    /\ UNCHANGED nonClientVars

\* what GET /api/v1/websites can deliver: an answer of the server or nothing
WebsitesOutcomes ==
    {[status |-> a.status, body |-> a.body] :
        a \in {WebsitesAnswer(NewReq("websites"), f) :
                  f \in WebsitesFileStates \cup {TextFile(ListEmpty)}}}
    \cup {[status |-> 0, body |-> NetworkFailure]}

\* the value of scanInitiated that initiateScan reads: the one of the render
\* that created the effect's closure, the first render of the instance
CapturedScanInitiated == InitialOv.scanInitiated

\* a faulty variant: initiateScan is called whatever the website list gave
ScanStartsAlways(ok) == ~CapturedScanInitiated

\* data.success: initiateScan(), which returns early if (scanInitiated)
ScanStarts(ok) == ok /\ ~CapturedScanInitiated

\* the initial load resolves
WebsitesResolved ==
    \E i \in 1..Len(net), w \in WebsitesOutcomes :
       LET r == net[i]
           ok == w.status = 200 /\ Truthy(w.body.success)
           scan == ScanStarts(ok)
           loaded == IF ok
                     THEN [ov EXCEPT !.websites = w.body.websites.arr, !.loading = FALSE,
                                     !.scanInitiated = TRUE]
                     ELSE [ov EXCEPT !.error = "Failed", !.loading = FALSE]
       IN  /\ r.kind = "websites"
           /\ ov' = IF Current(r) THEN loaded ELSE ov
           /\ interval' = IF Current(r) THEN PollEffect(loaded) ELSE interval
           /\ net' = IF scan THEN Append(Remove(net, i), Fetch("scan", r.inst, r.opening))
                     ELSE Remove(net, i)
           /\ posts' = IF scan THEN [posts EXCEPT ![r.opening] = @ + 1] ELSE posts
           /\ UNCHANGED <<showScanOverlay, inst, opening, lastApplied, heldBefore, appliedLate,
                          tickedFull>>
           /\ UNCHANGED nonClientVars

\* the scan start request resolves or fails: nothing is done with it
ScanResolved ==
    \E i \in 1..Len(net) :
       /\ net[i].kind = "scan"
       /\ net' = Remove(net, i)
       /\ UNCHANGED <<showScanOverlay, inst, opening, ov, interval, posts, lastApplied, heldBefore,
                      appliedLate, tickedFull>>
       /\ UNCHANGED nonClientVars

InFlight(kind) == Cardinality({i \in 1..Len(net) : net[i].kind = kind})

\* the interval fires: fetch('/api/v1/scan-results')
IntervalTick ==
    /\ interval
    /\ Len(net) < MaxInFlight
    /\ net' = Append(net, Fetch("poll", inst, opening))
    /\ tickedFull' = Complete(ov)
    /\ UNCHANGED <<showScanOverlay, inst, opening, ov, interval, posts, lastApplied, heldBefore,
                   appliedLate>>
    /\ UNCHANGED nonClientVars

\* what GET /api/v1/scan-results can deliver
PollOutcomes ==
    {DefaultShape, NetworkFailure}
    \cup {ResultsAnswer(NewReq("scan-results"), f).body :
             f \in (ResultsFileStates \cup WrittenUpTo({DocSecond, DocOther})) \ {Absent}}

Has(body, field) == field \in DOMAIN body
\* data.success && data.all_results
Qualifies(body) ==
    /\ Has(body, "success") /\ Truthy(body.success)
    /\ Has(body, "all_results") /\ Truthy(body.all_results)

\* data.summary?.total_scanned || 0
SummaryField(body, field) ==
    IF Has(body, "summary") /\ Has(body.summary.obj, field) THEN body.summary.obj[field].num ELSE 0

\* a faulty variant: the records are merged into the map already held
PollApplyIntoHeld(o, body) ==
    IF Qualifies(body)
    THEN [o EXCEPT !.scanResults = MergeFrom(o.scanResults, body.all_results.arr, 1),
                   !.stats = [total |-> SummaryField(body, "total_scanned"),
                              found |-> SummaryField(body, "deepfakes_found")]]
    ELSE o

\* a faulty variant: a response reporting less progress than shown is dropped
PollApplyNewestTotal(o, body) ==
    IF Qualifies(body) /\ SummaryField(body, "total_scanned") >= o.stats.total
    THEN [o EXCEPT !.scanResults = MergeResults(body.all_results.arr),
                   !.stats = [total |-> SummaryField(body, "total_scanned"),
                              found |-> SummaryField(body, "deepfakes_found")]]
    ELSE o

\* a faulty variant: a response without results empties what is shown
PollApplyResets(o, body) ==
    IF Qualifies(body)
    THEN [o EXCEPT !.scanResults = MergeResults(body.all_results.arr),
                   !.stats = [total |-> SummaryField(body, "total_scanned"),
                              found |-> SummaryField(body, "deepfakes_found")]]
    ELSE [o EXCEPT !.scanResults = EmptyMap, !.stats = [total |-> 0, found |-> 0]]

\* the .then(data => ...) of a poll
PollApply(o, body) ==
    IF Qualifies(body)
    THEN [o EXCEPT !.scanResults = MergeResults(body.all_results.arr),
                   !.stats = [total |-> SummaryField(body, "total_scanned"),
                              found |-> SummaryField(body, "deepfakes_found")]]
    ELSE o

(***************************************************************************)
(* SpecPoll: the callback of a poll applied to one Ready instance and one  *)
(* response.                                                               *)
(***************************************************************************)
\* bodies next to those the server of this repository sends: success false
\* with results, and an all_results that is null
PollBodies ==
    PollOutcomes
    \cup {[success |-> JBool(FALSE), all_results |-> JArr(<<Rec(A_COM, "Fake", 90)>>)],
          [success |-> JBool(TRUE), all_results |-> NoVal],
          [success |-> JBool(TRUE), all_results |-> JArr(<<>>)]}

\* what a Ready instance can show when a response arrives
ShownStates ==
    {[InitialOv EXCEPT !.loading = FALSE, !.scanInitiated = TRUE, !.websites = w,
                       !.scanResults = m, !.stats = st] :
        w \in {<<A_COM, B_COM>>, <<>>},
        m \in {EmptyMap} \cup {MergeResults(b.all_results.arr) :
                                  b \in {x \in PollOutcomes : Qualifies(x)}},
        st \in [total : {0, 1, 3}, found : {0, 1}]}

InitPoll ==
    /\ pOv \in ShownStates
    /\ pBody \in PollBodies
    /\ pPc = "input"

IdlePoll ==
    /\ pOv = InitialOv
    /\ pBody = NoResponse
    /\ pPc = "idle"

\* .then(data => ...) or .catch(console.error) of one poll
OnPollResponse ==
    /\ pPc = "input"
    /\ pOv' = PollApply(pOv, pBody)
    /\ pPc' = "done"
    /\ UNCHANGED pBody
    /\ UNCHANGED nonPollVars

\* a poll resolves; the setters of an unmounted instance do nothing, those
\* of a mounted one make it render, and the polling effect runs again when
\* loading or error changed
PollResolved ==
    \E i \in 1..Len(net), body \in PollOutcomes :
       LET r == net[i]
           applied == Current(r) /\ Qualifies(body)
       IN  /\ r.kind = "poll"
           /\ net' = IF applied THEN MarkLate(Remove(net, i), i, r.inst) ELSE Remove(net, i)
           /\ ov' = IF Current(r) THEN PollApply(ov, body) ELSE ov
           /\ interval' = IF Current(r) THEN PollEffect(PollApply(ov, body)) ELSE interval
           /\ lastApplied' = IF applied THEN body ELSE lastApplied
           /\ heldBefore' = IF applied THEN DOMAIN ov.scanResults ELSE heldBefore
           /\ appliedLate' = IF applied THEN r.late ELSE appliedLate
           /\ UNCHANGED <<showScanOverlay, inst, opening, posts, tickedFull>>
           /\ UNCHANGED nonClientVars

\* a faulty variant: the percentage never exceeds 100
progressClamped(o) ==
    IF Len(o.websites) > 0
    THEN IF o.stats.total > Len(o.websites) THEN [num |-> 100, den |-> 1]
         ELSE [num |-> o.stats.total * 100, den |-> Len(o.websites)]
    ELSE [num |-> 0, den |-> 1]

\* websites.length > 0 ? (stats.total / websites.length) * 100 : 0, as the
\* fraction num / den
progressPercentage(o) ==
    IF Len(o.websites) > 0
    THEN [num |-> o.stats.total * 100, den |-> Len(o.websites)]
    ELSE [num |-> 0, den |-> 1]

\* Math.round of a fraction that is not negative
MathRound(q) == (2 * q.num + q.den) \div (2 * q.den)

\* what the progress bar shows: the width of the bar, the two counts and the
\* rounded percentage
ProgressBar(o) ==
    [width |-> progressPercentage(o), total |-> o.stats.total, count |-> Len(o.websites),
     complete |-> MathRound(progressPercentage(o))]

\* the row of one website: the icon and the text chosen by
\* result ? (isFake ? ... : ...) : ..., result being scanResults[key]
SiteRow(o, site) ==
    LET key == normalizeUrl(site)
        result == HasKey(o.scanResults, key)
        isFake == result /\ o.scanResults[key].prediction = "Fake"
        isSafe == result /\ o.scanResults[key].prediction = "Real"
    IN  [icon |-> IF result THEN (IF isFake THEN "AlertTriangle" ELSE "CheckCircle")
                  ELSE "pulse",
         text |-> IF result THEN (IF isFake THEN "THREAT DETECTED" ELSE "SAFE")
                  ELSE "Scanning...",
         tint |-> IF isFake THEN "red" ELSE IF isSafe THEN "green" ELSE "none"]

\* the state a row shows
Shown(row) ==
    IF row.text = "Scanning..." THEN "Scanning"
    ELSE IF row.text = "THREAT DETECTED" THEN "Threat" ELSE "Safe"

(***************************************************************************)
(* The specifications.                                                     *)
(***************************************************************************)
Init == InitServer /\ IdleClient /\ IdleNorm /\ IdleMerge /\ IdleClose /\ IdlePoll

Next ==
    \/ AnalyzeNoFile
    \/ AnalyzeOtherField
    \/ AnalyzeFile
    \/ ChildClose
    \/ GlobalScan
    \/ GetWebsites
    \/ WebsitesRead
    \/ GetScanResults
    \/ ResultsRead
    \/ WriteResults
    \/ EditWebsites

Spec == Init /\ [][Next]_vars

NextClient ==
    \/ HandlePlatformReport
    \/ CloseOverlay
    \/ LegalOptionsRerender
    \/ WebsitesResolved
    \/ ScanResolved
    \/ IntervalTick
    \/ PollResolved

InitC == IdleServer /\ InitClient /\ IdleNorm /\ IdleMerge /\ IdleClose /\ IdlePoll
SpecClient == InitC /\ [][NextClient]_vars

InitN == IdleServer /\ IdleClient /\ InitNorm /\ IdleMerge /\ IdleClose /\ IdlePoll
NextNorm == NormalizeBoth
SpecNorm == InitN /\ [][NextNorm]_vars

InitM == IdleServer /\ IdleClient /\ IdleNorm /\ InitMerge /\ IdleClose /\ IdlePoll
NextMerge == MergeAll
SpecMerge == InitM /\ [][NextMerge]_vars

InitA == IdleServer /\ IdleClient /\ IdleNorm /\ IdleMerge /\ InitClose /\ IdlePoll
NextClose == OnClose
SpecClose == InitA /\ [][NextClose]_vars

InitP == IdleServer /\ IdleClient /\ IdleNorm /\ IdleMerge /\ IdleClose /\ InitPoll
NextPoll == OnPollResponse
SpecPoll == InitP /\ [][NextPoll]_vars

\* the timer fires every 2000 ms while the interval is set, and every fetch
\* settles (it resolves or fails)
SpecClientLive ==
    /\ InitC /\ [][NextClient]_vars
    /\ WF_vars(IntervalTick)
    /\ WF_vars(WebsitesResolved) /\ WF_vars(ScanResolved) /\ WF_vars(PollResolved)

(***************************************************************************)
(* Properties of the server (Spec).                                        *)
(***************************************************************************)
Answered(r) == r.pc = "answered"
IsErrorBody(b) == Has(b, "success") /\ ~b.success.bool /\ Has(b, "error")

\* C1: whatever the requests and the outcomes of the external processes,
\* the server process is still running afterwards.
C1_ServerSurvives == serverUp

\* C2: every POST /api/v1/global-scan is answered {success:true, message};
\* a scanner that fails to start changes neither the answer nor the server.
C2_ScanAlwaysAccepted ==
    \A r \in Requests :
        r.ep = "global-scan" =>
            /\ Answered(r) /\ r.status = 200 /\ r.body = ScanAccepted
            /\ r.spawn = "error" => serverUp

\* C3: an analyze request with a file whose process cannot be started is
\* answered 500 with a {success:false, error} body.
C3_SpawnFailureAnswered500 ==
    \A r \in Requests :
        r.ep = "analyze" /\ r.hasFile /\ r.spawn # "ok" =>
            Answered(r) /\ r.status = 500 /\ IsErrorBody(r.body)

\* a text that stops before the end of a document of the scanner: the empty
\* file and every document observed half-written
HalfWritten(text) ==
    \E d \in ResultDocs : Len(text) < Len(d) /\ text = SubSeq(d, 1, Len(text))

\* C4: a results document that is absent at the existence check, or is read
\* and is empty or half-written, is answered 200 with the default empty shape.
C4_MalformedGivesDefault ==
    \A r \in Requests :
        /\ r.ep = "scan-results"
        /\ Answered(r)
        /\ \/ ~r.existed
           \/ r.seen.kind = "text" /\ HalfWritten(r.seen.text)
        => r.status = 200 /\ r.body = DefaultShape

C4_Witness ==
    \E r \in Requests :
        /\ r.ep = "scan-results" /\ Answered(r)
        /\ r.seen.kind = "text" /\ r.seen.text # <<>> /\ HalfWritten(r.seen.text)
        /\ r.body = DefaultShape

\* the file was there at the existence check and reading it failed
ReadFailed(r) == Answered(r) /\ r.seen.kind \in {"absent", "unreadable"}

\* C5 as stated: a read error of the results file is answered with the empty
\* success shape, one of the website list with 500.
C5_ReadErrorDowngraded ==
    \A r \in Requests :
        /\ r.ep = "scan-results" /\ r.existed /\ ReadFailed(r)
              => r.status = 200 /\ r.body = DefaultShape
        /\ r.ep = "websites" /\ ReadFailed(r)
              => r.status = 500 /\ IsErrorBody(r.body)

\* C5 amended: a read error is answered 500 {success:false, error} by both
\* endpoints; the results endpoint answers the empty success shape only for
\* a file absent at the existence check.
C5_ReadErrorIs500OnBoth ==
    \A r \in Requests :
        /\ r.ep = "scan-results" /\ r.existed /\ ReadFailed(r)
              => r.status = 500 /\ r.body = ErrorBody("Failed to load results")
        /\ r.ep = "websites" /\ ReadFailed(r)
              => r.status = 500 /\ r.body = ErrorBody("Failed to load website list")
        /\ r.ep = "scan-results" /\ Answered(r) /\ ~r.existed
              => r.status = 200 /\ r.body = DefaultShape

C5_Witness ==
    \E r \in Requests :
        /\ r.ep = "scan-results" /\ r.existed /\ ReadFailed(r)
        /\ r.seen.kind = "absent"
        /\ r.status = 500

\* the lines of a file that are not blank, in the order of the file
Kept(ls) == {i \in 1..Len(ls) : \E j \in 1..Len(ls[i]) : ls[i][j] # " "}
Nth(S, k) == CHOOSE i \in S : Cardinality({j \in S : j < i}) = k - 1
\* t is s without the blanks at its ends
IsTrimOf(t, s) ==
    /\ t # <<>> /\ t[1] # " " /\ t[Len(t)] # " "
    /\ \E a, b \in 0..Len(s) :
          /\ s = [i \in 1..a |-> " "] \o t \o [i \in 1..b |-> " "]

\* C21: a readable website list is answered {success:true, websites}, the
\* websites being the lines of the file as read for this request, trimmed,
\* without the blank ones, in the order of the file.
C21_WebsitesAreTrimmedLines ==
    \A r \in Requests :
        r.ep = "websites" /\ Answered(r) /\ r.seen.kind = "text" =>
            LET ls == r.seen.text
                kept == Kept(ls)
            IN  /\ r.status = 200
                /\ DOMAIN r.body = {"success", "websites"}
                /\ r.body.success = JBool(TRUE)
                /\ Len(r.body.websites.arr) = Cardinality(kept)
                /\ \A k \in 1..Cardinality(kept) :
                      IsTrimOf(r.body.websites.arr[k], ls[Nth(kept, k)])

\* two requests that read different contents of the file
C21_Witness ==
    \E r, q \in Requests :
        /\ r.ep = "websites" /\ Answered(r) /\ r.seen = TextFile(ListAB)
        /\ q.ep = "websites" /\ Answered(q) /\ q.seen = TextFile(ListBA)
        /\ r.body.websites.arr = <<A_COM, B_COM>>
        /\ q.body.websites.arr = <<B_COM, A_COM>>

\* the number of scan triggers received whose spawn had one of the outcomes
Scans(outcomes) ==
    BagCardinality([r \in {x \in Requests : x.ep = "global-scan" /\ x.spawn \in outcomes}
                       |-> CopiesIn(r, reqs)])

AcceptedUploads ==
    BagCardinality([r \in {x \in Requests : x.part = "image"} |-> CopiesIn(r, reqs)])

\* C18: an upload without a file in the field 'image' is answered 400
\* {success:false, error:"No image file uploaded"}; no process is started for
\* it and no file is stored.
C18_NoFileIs400 ==
    /\ \A r \in Requests :
          r.ep = "analyze" /\ r.part # "image" =>
              /\ Answered(r) /\ r.status = 400
              /\ r.body = ErrorBody("No image file uploaded")
              /\ r.spawn = "none"
    /\ Cardinality(uploads) <= AcceptedUploads

\* an analyze request whose child was started and has not closed
Pending(r) == r.ep = "analyze" /\ r.spawn = "ok" /\ r.pc = "running"

\* C23: an analyze request whose child has not closed has no response; the
\* response sent at the close is the only one (an answered request is never
\* answered again); while a child has not closed the server accepts and
\* answers other requests.
C23_OneAnswerAfterClose ==
    /\ [](\A r \in Requests : Pending(r) => r.status = 0 /\ r.body = NoBody)
    /\ [][\A r \in Requests :
             /\ Answered(r) => CopiesIn(r, reqs') >= CopiesIn(r, reqs)
             /\ Pending(r) /\ CopiesIn(r, reqs') < CopiesIn(r, reqs) =>
                   \E code \in ExitCodes, out \in Outputs :
                       /\ CopiesIn(CloseAnswer(r, code, out), reqs') >
                             CopiesIn(CloseAnswer(r, code, out), reqs)
                       /\ Answered(CloseAnswer(r, code, out))]_vars
    /\ []((\E r \in Requests : Pending(r)) /\ serverUp /\ BagCardinality(reqs) < MaxReq =>
            /\ ENABLED AnalyzeNoFile
            /\ ENABLED GetWebsites
            /\ ENABLED GetScanResults)

\* a request whose child has not closed next to a request answered meanwhile
C23_Witness ==
    \E r, q \in Requests :
        /\ Pending(r)
        /\ q.ep = "websites" /\ Answered(q) /\ q.status = 200

\* C20: every accepted upload is stored under a file name of its own.
C20_NoNameCollision == Cardinality(uploads) = AcceptedUploads

(***************************************************************************)
(* Properties of normalizeUrl (SpecNorm).                                  *)
(***************************************************************************)
BareWww(v) == v.scheme = <<>> /\ v.www

\* C6 as stated: spellings of one site that differ by scheme, trailing slash
\* or leading "www." (with or without a scheme) get the same key.
C6_AllSpellingsSameKey == nPc = "done" => nKeyA = nKeyB

\* C6 amended: every spelling gets the bare host as its key, except "www."
\* without a scheme in front, which keeps its "www.".
C6_SameKeyUnlessBareWww ==
    nPc = "done" =>
        /\ nKeyA = (IF BareWww(nVarA) THEN WWW \o nHost ELSE nHost)
        /\ nKeyB = (IF BareWww(nVarB) THEN WWW \o nHost ELSE nHost)

C6_Witness ==
    /\ nPc = "done"
    /\ nVarA = [scheme |-> HTTPS, www |-> TRUE, slash |-> TRUE]
    /\ nVarB = [scheme |-> <<>>, www |-> FALSE, slash |-> FALSE]
    /\ nKeyA = nKeyB

(***************************************************************************)
(* Properties of the merge (SpecMerge).                                    *)
(***************************************************************************)
\* the site a url of the model names
SiteOf(url) == IF url \in {B_COM, B_COM \o SLASH} THEN B_COM ELSE A_COM

FakesOf(list, k) ==
    {i \in 1..Len(list) : SiteOf(list[i].source_url) = k /\ list[i].prediction = "Fake"}

\* C7: a key with a "Fake" record in the list holds the last "Fake" record
\* of the list, wherever the "Real" records of the key stand.
C7_LastFakeWins ==
    mPc = "done" =>
        \A k \in {A_COM, B_COM} :
            LET fakes == FakesOf(mList, k)
            IN  fakes # {} =>
                  /\ HasKey(mMap, k)
                  /\ mMap[k] = mList[CHOOSE i \in fakes : \A j \in fakes : j <= i]

C7_Witness ==
    /\ mPc = "done"
    /\ \E i, j \in 1..Len(mList) :
          /\ i < j
          /\ mList[i].prediction = "Fake" /\ mList[j].prediction = "Real"
          /\ SiteOf(mList[i].source_url) = A_COM /\ SiteOf(mList[j].source_url) = A_COM
          /\ mList[i].source_url # mList[j].source_url
    /\ mMap[A_COM].prediction = "Fake"

(***************************************************************************)
(* Properties of the overlay (SpecClient).                                 *)
(***************************************************************************)
\* C8 as stated: a key that holds a result keeps one after every later
\* applied response.
C8_KeysNeverDropped == showScanOverlay => heldBefore \subseteq DOMAIN ov.scanResults

\* C8 amended: the map of the instance holds exactly the keys of the last
\* applied response, and none before a response was applied.
C8_MapIsLastResponse ==
    showScanOverlay =>
        DOMAIN ov.scanResults =
            IF lastApplied = NoResponse THEN {}
            ELSE {SiteOf(lastApplied.all_results.arr[i].source_url) :
                      i \in 1..Len(lastApplied.all_results.arr)}

C8_Witness ==
    /\ showScanOverlay
    /\ lastApplied # NoResponse
    /\ heldBefore # {}
    /\ ~(heldBefore \subseteq DOMAIN ov.scanResults)

\* C9: for one opening of the overlay the scan start request is issued at
\* most once.
C9_ScanStartOncePerOpening == \A o \in DOMAIN posts : posts[o] <= 1

\* C10: a poll is issued only by a mounted instance in the Ready state, the
\* interval is never set while Loading, in Error or after the close, and a
\* response to a poll of an instance that is gone changes nothing.
C10_PollsOnlyWhileReady ==
    [][/\ InFlight("poll")' > InFlight("poll") => showScanOverlay /\ Ready(ov)
       /\ interval' => showScanOverlay' /\ Ready(ov')
       /\ \A i \in 1..Len(net) :
             net[i].kind = "poll" /\ ~Current(net[i]) /\ net' = Remove(net, i)
                => ov' = ov /\ lastApplied' = lastApplied]_vars

C10_Witness == ~showScanOverlay /\ InFlight("poll") > 0

\* C11: while the overlay stays open in the Ready state the interval stays
\* set whatever the responses were (complete scan, no results, failure) and
\* whatever is pending, and a poll is issued again and again, forever.
C11_PollsForever ==
    /\ [](showScanOverlay /\ Ready(ov) => interval)
    /\ <>[](showScanOverlay /\ Ready(ov)) => []<><<IntervalTick>>_vars

\* the last poll was issued by an instance that showed a complete scan,
\* while an earlier poll of it was still pending
C11_Witness ==
    /\ showScanOverlay /\ Ready(ov) /\ interval
    /\ tickedFull
    /\ Cardinality({i \in 1..Len(net) : net[i].kind = "poll" /\ Current(net[i])}) = MaxInFlight

\* C12: the map and the stats shown are those derived from the qualifying
\* response that resolved last, whichever request it answers; before any
\* qualifying response they are the initial ones.
C12_LastResolvedWins ==
    showScanOverlay =>
        IF lastApplied = NoResponse
        THEN ov.scanResults = EmptyMap /\ ov.stats = [total |-> 0, found |-> 0]
        ELSE /\ ov.scanResults = MergeResults(lastApplied.all_results.arr)
             /\ ov.stats.total = SummaryField(lastApplied, "total_scanned")
             /\ ov.stats.found = SummaryField(lastApplied, "deepfakes_found")

\* two polls were in flight, the response to the newer one was applied, and
\* then the response to the older one replaced what was shown
C12_Witness ==
    /\ showScanOverlay /\ Ready(ov)
    /\ appliedLate
    /\ lastApplied # NoResponse
    /\ heldBefore # {}

\* the pending requests of the mounted instance
CurrentOf(kind) == {i \in 1..Len(net) : net[i].kind = kind /\ Current(net[i])}

\* C13: an instance first requests the website list; the scan start is
\* issued only in the step that receives a website list, and for the mounted
\* instance only a successful one; a poll is issued only by an instance
\* that has issued its scan start; an instance whose website list failed
\* has issued neither and has no interval.
C13_RequestOrder ==
    /\ [](showScanOverlay =>
            /\ ov.loading =>
                  CurrentOf("websites") # {} /\ CurrentOf("scan") = {} /\ CurrentOf("poll") = {}
            /\ ov.error # NoError =>
                  /\ ~interval /\ ~ov.scanInitiated
                  /\ CurrentOf("scan") = {} /\ CurrentOf("poll") = {}
            /\ CurrentOf("scan") \cup CurrentOf("poll") # {} =>
                  Ready(ov) /\ ov.scanInitiated /\ posts[opening] >= 1)
    /\ [][posts' # posts =>
             \E i \in 1..Len(net) :
                /\ net[i].kind = "websites"
                /\ net' = Append(Remove(net, i), Fetch("scan", net[i].inst, net[i].opening))
                /\ posts' = [posts EXCEPT ![net[i].opening] = @ + 1]]_vars
    /\ [][InFlight("poll")' > InFlight("poll") =>
             Ready(ov) /\ ov.scanInitiated /\ posts[opening] >= 1]_vars

\* a poll was issued while the scan start of the instance is still pending
C13_Witness ==
    /\ showScanOverlay /\ Ready(ov)
    /\ posts[opening] = 1
    /\ CurrentOf("scan") # {}
    /\ CurrentOf("poll") # {}
    /\ \A i \in CurrentOf("scan"), j \in CurrentOf("poll") : i < j

\* C19: the progress shown by the mounted instance is total_scanned /
\* website_count * 100 for a list that is not empty (50 for one of two), 0
\* for an empty list, and above 100 when total_scanned exceeds the length of
\* the list.
C19_ProgressNotClamped ==
    showScanOverlay =>
        LET bar == ProgressBar(ov)
            n == Len(ov.websites)
            t == ov.stats.total
        IN  /\ n > 0 => bar.width.num * n = t * 100 * bar.width.den
            /\ n = 0 => bar.width.num = 0 /\ bar.complete = 0
            /\ n = 2 /\ t = 1 => bar.complete = 50
            /\ n > 0 /\ t > n => bar.width.num > 100 * bar.width.den /\ bar.complete > 100

\* the list of two websites with total_scanned 1
C19_Witness ==
    /\ showScanOverlay /\ Ready(ov)
    /\ Len(ov.websites) = 2
    /\ lastApplied # NoResponse
    /\ ov.stats.total = 1
    /\ ProgressBar(ov).complete = 50

\* C22: every website of the list is shown Scanning exactly when the map
\* has no record under its key, Threat exactly when the record's prediction
\* is "Fake", Safe exactly when it is "Real".
C22_RowStates ==
    showScanOverlay /\ Ready(ov) =>
        \A n \in 1..Len(ov.websites) :
            LET key == normalizeUrl(ov.websites[n])
                shown == Shown(SiteRow(ov, ov.websites[n]))
                has == key \in DOMAIN ov.scanResults
            IN  /\ shown = "Scanning" <=> ~has
                /\ shown = "Threat" <=> (has /\ ov.scanResults[key].prediction = "Fake")
                /\ shown = "Safe" <=> (has /\ ov.scanResults[key].prediction = "Real")

(***************************************************************************)
(* Properties of the close handler (SpecClose).                            *)
(***************************************************************************)
\* some line holds "[Result] Class: " followed by at least one character
HasClassPattern(out) ==
    \E l \in 1..Len(out) : \E p \in 1..Len(out[l]) : out[l][p] = RESULT /\ p < Len(out[l])

\* some line holds "[Confidence] ", at least one character and then "%"
HasConfPattern(out) ==
    \E l \in 1..Len(out) : \E p, q \in 1..Len(out[l]) :
        out[l][p] = CONF /\ out[l][q] = PCT /\ q >= p + 2

IsSuccess(r) == r.status = 200 /\ Has(r.body, "success") /\ r.body.success.bool

\* C15: the answer is a success exactly when the exit code is zero and the
\* output holds both patterns; a nonzero exit code gives 500 'Analysis
\* execution failed' whatever the output, and exit code zero with a pattern
\* missing gives 500 'Failed to parse analysis results'.
C15_CloseAnswers ==
    aPc = "done" =>
        /\ Answered(aAns)
        /\ IsSuccess(aAns) <=> (aCode = 0 /\ HasClassPattern(aOut) /\ HasConfPattern(aOut))
        /\ aCode # 0 =>
              aAns.status = 500 /\ aAns.body = ErrorBody("Analysis execution failed")
        /\ aCode = 0 /\ ~(HasClassPattern(aOut) /\ HasConfPattern(aOut)) =>
              aAns.status = 500 /\ aAns.body = ErrorBody("Failed to parse analysis results")

\* a nonzero exit code with both patterns in the output
C15_Witness ==
    /\ aPc = "done"
    /\ aCode # 0
    /\ HasClassPattern(aOut) /\ HasConfPattern(aOut)
    /\ aAns.body = ErrorBody("Analysis execution failed")

\* C16: the confidence of a success answer is a number from 0 to 100.
C16_ConfidenceInRange ==
    aPc = "done" /\ IsSuccess(aAns) =>
        LET confidence == aAns.body.result.obj.confidence
        IN  ~confidence.isNaN /\ confidence.value >= 0 /\ confidence.value <= 100

\* C17: in a success answer isFake is true exactly when the returned label
\* contains "Fake".
C17_IsFakeIffLabelHasFake ==
    aPc = "done" /\ IsSuccess(aAns) =>
        LET result == aAns.body.result.obj
        IN  result.isFake <=> \E i \in 1..Len(result.label) : result.label[i] = "Fake"

\* the label differs from the match it was trimmed from
C17_Witness ==
    /\ aPc = "done" /\ IsSuccess(aAns)
    /\ aAns.body.result.obj.isFake
    /\ aAns.body.result.obj.label # ClassMatch(aOut).text

\* C25: a results document that exists and parses as JSON is answered 200
\* with success true, whatever fields the document holds.
C25_ParsedIsSuccess ==
    \A r \in Requests :
        /\ r.ep = "scan-results"
        /\ Answered(r)
        /\ r.existed
        /\ r.seen.kind = "text"
        /\ JSONparse(r.seen.text).ok
        => r.status = 200 /\ r.body.success = JBool(TRUE)

(***************************************************************************)
(* Properties of the poll callback (SpecPoll).                             *)
(***************************************************************************)
\* a failed fetch, success missing or false, all_results missing or null
NotQualifying(body) ==
    \/ body = NetworkFailure
    \/ "success" \notin DOMAIN body
    \/ body.success = JBool(FALSE)
    \/ "all_results" \notin DOMAIN body
    \/ body.all_results = NoVal

\* C24: a response that does not qualify and a failed fetch leave the map
\* and the stats as they were.
C24_NonQualifyingKeepsShown ==
    [][pPc = "input" /\ pPc' = "done" /\ NotQualifying(pBody) =>
          /\ pOv'.scanResults = pOv.scanResults
          /\ pOv'.stats = pOv.stats]_vars

\* the default empty shape arrived while results were shown, and they are
\* still shown
C24_Witness ==
    /\ pPc = "done"
    /\ pBody = DefaultShape
    /\ DOMAIN pOv.scanResults # {}
    /\ pOv.stats.total > 0

====
